---- MODULE Spec2Model ----
(***************************************************************************)
(* Model of app.py: the Streamlit RAG knowledge assistant.                 *)
(*                                                                         *)
(* State is st.session_state (api_key, chunks, sources, index,             *)
(* chat_history).  One action per script run of main() (a run is           *)
(* single-threaded and synchronous, so a whole run is one step), plus a    *)
(* direct call of rag_query with an arbitrary k.  The external services    *)
(* (embedding, chat completion, files on disk, the vector index) are       *)
(* inputs drawn with \E.  Python lists are 1-based sequences here; Python  *)
(* positions (0-based, negative from the end) are kept as integers and     *)
(* converted in PyValid / PyGet.  The strings "" and the lists [] are      *)
(* the empty string and <<>>; a context string is the sequence of its      *)
(* entries, each standing for "\nChunk n:\n<chunk>\n<source>\n---\n".      *)
(* show_context is never assigned after its initialisation and only        *)
(* selects what is drawn, so it is not part of the state.  The variable     *)
(* last records what the latest step did (the value load_existing_index    *)
(* returned, what rag_query returned or that it raised, the labels of the  *)
(* search and the external calls in order); the program keeps no such log. *)
(***************************************************************************)
EXTENDS Integers, Sequences, FiniteSets, TLC

\* ---------------------------------------------------------------- bounds
MaxChunks == 2      \* largest knowledge base found on disk
MaxQuestions == 1   \* questions kept in one chat history
MaxK == 4           \* largest k of a direct rag_query call
MaxLen == 4         \* longest input list of get_text_embedding
MaxBatch == 3       \* largest batch_size of get_text_embedding

\* ------------------------------------------------------ program constants
DefaultK == 3           \* rag_query(question, k=3)
DefaultBatchSize == 10  \* get_text_embedding(list_txt_chunks, batch_size=10)

NotLoadedMsg == "Knowledge Base Not Loaded"
EmbedErrorMsg == "Error: Could not generate embeddings for the question."
ChatErrorPrefix == "Error generating response: "
NoKeyMsg == "Please enter your Mistral API key in the sidebar."
NoSourcesMsg == "Please add knowledge sources before asking questions."

\* --------------------------------------------------------------- inputs
Questions == {"q1", "q2"}
TypedKeys == {"", "k1"}
EnvKeys == {"", "k1"}
CachedKeys == {"kc"}
Answers == {"a1"}
ChatErrors == {"e1"}

\* The texts and labels a persisted knowledge base of n chunks holds.
ChunkText(i) == <<"chunk", i>>
SourceLabel(i) == IF i <= 2 THEN "A" ELSE "B"
DiskChunks(n) == [i \in 1..n |-> ChunkText(i)]
DiskSources(n) == [i \in 1..n |-> SourceLabel(i)]

\* What load_existing_index finds on disk: no readable index file, an index
\* file with an unreadable metadata file, or an index of n rows with a
\* metadata dict that may lack any of its keys.
DiskStates ==
    {[kind |-> "no_index", n |-> 0, hasChunks |-> FALSE, hasSources |-> FALSE,
      hasKey |-> FALSE, key |-> ""],
     [kind |-> "bad_pickle", n |-> 0, hasChunks |-> FALSE, hasSources |-> FALSE,
      hasKey |-> FALSE, key |-> ""]}
    \cup
    {[kind |-> "ok", n |-> 0, hasChunks |-> FALSE, hasSources |-> TRUE,
      hasKey |-> FALSE, key |-> ""]}
    \cup
    [kind : {"ok"}, n : 0..MaxChunks, hasChunks : {TRUE}, hasSources : {FALSE},
     hasKey : {FALSE}, key : {""}]
    \cup
    [kind : {"ok"}, n : 0..MaxChunks, hasChunks : {TRUE}, hasSources : {TRUE},
     hasKey : {FALSE}, key : {""}]
    \cup
    [kind : {"ok"}, n : 0..MaxChunks, hasChunks : {TRUE}, hasSources : {TRUE},
     hasKey : {TRUE}, key : CachedKeys]

VARIABLES api_key, chunks, sources, index, chat_history, last,
          emb_in, emb_bs, emb_svc, emb_res

vars == <<api_key, chunks, sources, index, chat_history, last,
          emb_in, emb_bs, emb_svc, emb_res>>
session == <<api_key, chunks, sources, index, chat_history, last>>
embedder == <<emb_in, emb_bs, emb_svc, emb_res>>

Min(a, b) == IF a < b THEN a ELSE b

\* st.session_state.index: None, or a faiss index object of ntotal rows.
NoneIndex == [none |-> TRUE, ntotal |-> 0]
FaissIndex(n) == [none |-> FALSE, ntotal |-> n]

\* An item of all_embeddings: the placeholder None, or the embedding object
\* the service returned for a text (its vector is named after the text).
NoneEmb == [none |-> TRUE, embedding |-> <<>>]
Embedding(text) == [none |-> FALSE, embedding |-> <<"vec", text>>]

\* Python truthiness: "" and [] are false; None is false and an index
\* object (which defines neither __bool__ nor __len__) is true.
TruthyStr(s) == s # ""
TruthyList(l) == Len(l) > 0
TruthyIndex(ix) == ~ix.none

\* list[i] for a Python position i: valid for -len <= i < len, negative
\* positions counting from the end.
PyValid(list, i) == -Len(list) <= i /\ i < Len(list)
PyGet(list, i) == IF i >= 0 THEN list[i + 1] ELSE list[Len(list) + i + 1]

\* ------------------------------------------------------ get_text_embedding
\* client.embeddings.create on one batch: "ok" returns one embedding per
\* input in input order, "empty" returns no data, "raise" raises.
BatchData(batch, outcome) ==
    IF outcome = "ok" THEN [j \in 1..Len(batch) |-> Embedding(batch[j])] ELSE <<>>

\* Mutant of FailedBatch: a single placeholder for the whole failed batch.
FailedBatchOnePlaceholder(batch) == <<NoneEmb>>

\* The except branch: one None placeholder per item of the batch.
FailedBatch(batch) == [j \in 1..Len(batch) |-> NoneEmb]

\* The batch loop, i being the loop variable of range(0, len, batch_size)
\* and svc[b + 1] the outcome of the service call for batch number b.
\* calls lists the batches sent to the service, in order.
RECURSIVE EmbedLoop(_, _, _, _, _, _)
EmbedLoop(list, batch_size, svc, i, all_embeddings, calls) ==
    IF i >= Len(list)
    THEN [out |-> all_embeddings, calls |-> calls]
    ELSE LET batch == SubSeq(list, i + 1, Min(i + batch_size, Len(list)))
             outcome == svc[(i \div batch_size) + 1]
             next == IF outcome = "raise"
                     THEN all_embeddings \o FailedBatch(batch)
                     ELSE all_embeddings \o BatchData(batch, outcome)
         IN EmbedLoop(list, batch_size, svc, i + batch_size, next,
                      Append(calls, batch))

get_text_embedding(list_txt_chunks, batch_size, svc) ==
    EmbedLoop(list_txt_chunks, batch_size, svc, 0, <<>>, <<>>)

\* ----------------------------------------------------------------- rag_query
\* index.search(query_embedding, k): the k nearest rows, nearest first, and
\* -1 in the positions for which the index has no row left.  The ranking
\* depends on the query vector: two rankings stand for the library's metric.
NearestRows(vec, n) ==
    IF vec = <<"vec", "q1">> THEN [j \in 1..n |-> j - 1] ELSE [j \in 1..n |-> n - j]
Search(ix, vec, k) ==
    [j \in 1..k |-> IF j <= ix.ntotal THEN NearestRows(vec, ix.ntotal)[j] ELSE -1]

\* Mutant of KnowledgeBaseMissing: the chunks list is not looked at.
KnowledgeBaseMissingIndexOnly(st) == ~TruthyIndex(st.index)

\* The guard of the first return: not index or not chunks.
KnowledgeBaseMissing(st) == ~TruthyIndex(st.index) \/ ~TruthyList(st.chunks)

\* The two list comprehensions over I.tolist()[0]; either raises IndexError
\* when a label is no position of the list.
IndexingRaises(st, I) ==
    \/ \E j \in 1..Len(I) : ~PyValid(st.chunks, I[j])
    \/ \E j \in 1..Len(I) : ~PyValid(st.sources, I[j])
RetrievedChunks(st, I) == [j \in 1..Len(I) |-> PyGet(st.chunks, I[j])]
RetrievedSources(st, I) == [j \in 1..Len(I) |-> PyGet(st.sources, I[j])]

\* The context string: one numbered entry per retrieved chunk.
FormatContext(retrieved_chunks, retrieved_sources) ==
    [i \in 1..Len(retrieved_chunks) |->
        [n |-> i, chunk |-> retrieved_chunks[i], source |-> retrieved_sources[i]]]

\* client.chat.complete: an answer, or an exception with a message.
ChatOutcomes == [ok : {TRUE}, text : Answers] \cup [ok : {FALSE}, text : ChatErrors]

\* What the two services do during one run: the outcome of the embedding
\* call and, when an embedding came back, of the chat completion call.
ServiceOutcomes ==
    [eo : {"ok"}, co : ChatOutcomes]
    \cup [eo : {"raise", "empty"}, co : {[ok |-> FALSE, text |-> "unused"]}]
ChatResponse(co) == IF co.ok THEN co.text ELSE ChatErrorPrefix \o co.text

\* What a call leaves behind: whether it raised, the returned triple, the
\* labels the search returned and the external calls made, in order.
Result(raised, response, context, srcs, labels, events) ==
    [raised |-> raised, response |-> response, context |-> context,
     sources |-> srcs, labels |-> labels, events |-> events]
NoResult == Result(FALSE, "", <<>>, <<>>, <<>>, <<>>)

\* An external call and how it ended.
Event(call, outcome) == [call |-> call, outcome |-> outcome]
EmbedEvents(calls, eo) == [j \in 1..Len(calls) |-> Event("embed", eo)]
ChatEvent(co) == Event("chat", IF co.ok THEN "ok" ELSE "raise")

\* Mutant of QuestionEmbeddingMissing: the None placeholder is not looked at.
QuestionEmbeddingMissingEmptyOnly(question_embeddings) == question_embeddings = <<>>

\* The guard of the second return: not question_embeddings or
\* question_embeddings[0] is None.
QuestionEmbeddingMissing(question_embeddings) ==
    question_embeddings = <<>> \/ question_embeddings[1].none

\* st is the session state the call reads; it assigns none of it.
rag_query(st, question, k, eo, co) ==
    IF KnowledgeBaseMissing(st)
    THEN Result(FALSE, NotLoadedMsg, <<>>, <<>>, <<>>, <<>>)
    ELSE
      LET qe == get_text_embedding(<<question>>, DefaultBatchSize, <<eo>>)
          ev1 == EmbedEvents(qe.calls, eo)
      IN IF QuestionEmbeddingMissing(qe.out)
         THEN Result(FALSE, EmbedErrorMsg, <<>>, <<>>, <<>>, ev1)
         ELSE
           LET I == Search(st.index, qe.out[1].embedding, k)
               ev2 == Append(ev1, Event("search", "ok"))
           IN IF IndexingRaises(st, I)
              THEN Result(TRUE, "", <<>>, <<>>, I, ev2)
              ELSE Result(FALSE, ChatResponse(co),
                          FormatContext(RetrievedChunks(st, I), RetrievedSources(st, I)),
                          RetrievedSources(st, I), I, Append(ev2, ChatEvent(co)))

\* ------------------------------------------------------ load_existing_index
\* The session state the call leaves and the value it returns, from the
\* session key at the call and what is on disk.  The assignments run in
\* source order inside the try; the except handler assigns nothing.
Loaded(c, s, ix, key, ok) ==
    [chunks |-> c, sources |-> s, index |-> ix, api_key |-> key, ok |-> ok]

load_existing_index(key, d) ==
    IF d.kind # "ok"
    THEN Loaded(chunks, sources, index, key, FALSE)       \* read_index / pickle.load raises
    ELSE IF ~d.hasChunks
    THEN Loaded(chunks, sources, index, key, FALSE)       \* data["chunks"] raises KeyError
    ELSE IF ~d.hasSources
    THEN Loaded(DiskChunks(d.n), sources, index, key, FALSE)  \* data["sources"] raises
    ELSE Loaded(DiskChunks(d.n), DiskSources(d.n), FaissIndex(d.n),
                IF d.hasKey /\ ~TruthyStr(key) THEN d.key ELSE key, TRUE)

\* ---------------------------------------------------------------------- main
\* st.text_input returns the text typed in the field, or its value argument
\* (the session key) when nothing was typed; display_sidebar stores it.
SidebarKeys == {api_key} \cup TypedKeys

UserTurn(q) == [role |-> "user", content |-> q, context |-> <<>>, sources |-> <<>>]
AssistantTurn(r) ==
    [role |-> "assistant", content |-> r.response, context |-> r.context,
     sources |-> r.sources]

\* Mutant of Respond: the index is checked before the key.
RespondIndexFirst(q, kb, eo, co) ==
    IF ~TruthyIndex(kb.index)
    THEN Result(FALSE, NoSourcesMsg, <<>>, <<>>, <<>>, <<>>)
    ELSE IF ~TruthyStr(kb.api_key)
    THEN Result(FALSE, NoKeyMsg, <<>>, <<>>, <<>>, <<>>)
    ELSE rag_query(kb, q, DefaultK, eo, co)

\* The three-way branch of main on the session state the load left.
Respond(q, kb, eo, co) ==
    IF ~TruthyStr(kb.api_key)
    THEN Result(FALSE, NoKeyMsg, <<>>, <<>>, <<>>, <<>>)
    ELSE IF ~TruthyIndex(kb.index)
    THEN Result(FALSE, NoSourcesMsg, <<>>, <<>>, <<>>, <<>>)
    ELSE rag_query(kb, q, DefaultK, eo, co)

Last(kind, q, k, ok, r) ==
    [kind |-> kind, question |-> q, k |-> k, load_ok |-> ok, res |-> r]

NumQuestions == Len(SelectSeq(chat_history, LAMBDA m : m.role = "user"))

\* st.session_state as the functions above read it.
Session == [chunks |-> chunks, sources |-> sources, index |-> index,
            api_key |-> api_key]

Install(kb) ==
    /\ api_key' = kb.api_key
    /\ chunks' = kb.chunks
    /\ sources' = kb.sources
    /\ index' = kb.index

\* A run with no question and no click (the key field was edited, or the
\* page was reloaded): display_sidebar, load_existing_index, redraw.
RunIdle ==
    \E typed \in SidebarKeys, d \in DiskStates :
        LET kb == load_existing_index(typed, d) IN
        /\ Install(kb)
        /\ last' = Last("idle", "", 0, kb.ok, NoResult)
        /\ UNCHANGED <<chat_history, embedder>>

\* A run in which the clear button was clicked: the key is stored, the
\* history emptied, and st.rerun() starts the script over, which then runs
\* display_sidebar and load_existing_index with no click.
RunClear ==
    \E typed \in SidebarKeys, d \in DiskStates :
        LET kb == load_existing_index(typed, d) IN
        /\ Install(kb)
        /\ chat_history' = <<>>
        /\ last' = Last("clear", "", 0, kb.ok, NoResult)
        /\ UNCHANGED embedder

\* A run in which a question was submitted.  The user turn is appended
\* before the answer is computed; an exception escaping rag_query ends the
\* run before the assistant turn is appended.
RunQuestion ==
    \E typed \in SidebarKeys, d \in DiskStates, q \in Questions,
       svc \in ServiceOutcomes :
        LET kb == load_existing_index(typed, d) IN
        /\ NumQuestions < MaxQuestions
        /\ Install(kb)
        /\ LET r == Respond(q, kb, svc.eo, svc.co) IN
            /\ chat_history' =
                 IF r.raised
                 THEN Append(chat_history, UserTurn(q))
                 ELSE Append(Append(chat_history, UserTurn(q)), AssistantTurn(r))
            /\ last' = Last("main", q, DefaultK, kb.ok, r)
        /\ UNCHANGED embedder

\* rag_query called on the session state as it is, with any k >= 1.
RagQueryDirect ==
    \E q \in Questions, k \in 1..MaxK, svc \in ServiceOutcomes :
        /\ last' = Last("direct", q, k, last.load_ok, rag_query(Session, q, k, svc.eo, svc.co))
        /\ UNCHANGED <<api_key, chunks, sources, index, chat_history, embedder>>

\* ------------------------------------------------- get_text_embedding alone
Texts == {"t1", "t2"}
BatchSizes == 1..MaxBatch \cup {DefaultBatchSize}
NumBatches(len, batch_size) == (len + batch_size - 1) \div batch_size
InputLists == UNION {[1..n -> Texts] : n \in 0..MaxLen}
NotCalled == [done |-> FALSE, out |-> <<>>, calls |-> <<>>]

\* An input list and a batch size; the first call finds the service up, and
\* each later call of the same list finds it failing on some set of batches.
InitEmbed ==
    /\ api_key \in EnvKeys
    /\ chunks = <<>>
    /\ sources = <<>>
    /\ index = NoneIndex
    /\ chat_history = <<>>
    /\ last = Last("init", "", 0, FALSE, NoResult)
    /\ emb_in \in InputLists
    /\ emb_bs \in BatchSizes
    /\ emb_svc = [b \in 1..NumBatches(Len(emb_in), emb_bs) |-> "ok"]
    /\ emb_res = NotCalled

EmbedCall ==
    /\ ~emb_res.done
    /\ LET r == get_text_embedding(emb_in, emb_bs, emb_svc) IN
         emb_res' = [done |-> TRUE, out |-> r.out, calls |-> r.calls]
    /\ UNCHANGED <<session, emb_in, emb_bs, emb_svc>>

EmbedAgain ==
    /\ emb_res.done
    /\ emb_svc' \in [1..NumBatches(Len(emb_in), emb_bs) -> {"ok", "raise"}]
    /\ emb_res' = NotCalled
    /\ UNCHANGED <<session, emb_in, emb_bs>>

NextEmbed == EmbedCall \/ EmbedAgain

SpecEmbed == InitEmbed /\ [][NextEmbed]_vars

Init ==
    /\ api_key \in EnvKeys
    /\ chunks = <<>>
    /\ sources = <<>>
    /\ index = NoneIndex
    /\ chat_history = <<>>
    /\ last = Last("init", "", 0, FALSE, NoResult)
    /\ emb_in = <<>>
    /\ emb_bs = DefaultBatchSize
    /\ emb_svc = <<>>
    /\ emb_res = NotCalled

\* The script runs of one browser session.
Next == RunIdle \/ RunClear \/ RunQuestion

Spec == Init /\ [][Next]_vars

\* rag_query called as a function, on every session state the loads produce.
NextQuery == RunIdle \/ RagQueryDirect

SpecQuery == Init /\ [][NextQuery]_vars

\* ===================================================================== claims
LastIsRun == last.kind \in {"idle", "clear", "main"}
LastTurns(h, n) == SubSeq(h, Len(h) - n + 1, Len(h))

\* C1: after a failed load_existing_index (it returned False) the session's
\* index is None and its chunks and sources are empty, whatever the session
\* held before.  The code's except handler resets nothing, so this fails.
C1_FailedLoadLeavesUnset ==
    (LastIsRun /\ ~last.load_ok) =>
        (index = NoneIndex /\ chunks = <<>> /\ sources = <<>>)

\* C2: in every reachable session state chunks and sources have the same
\* length, and a set index holds exactly as many rows as there are chunks.
C2_Aligned ==
    /\ Len(chunks) = Len(sources)
    /\ ~index.none => index.ntotal = Len(chunks)

\* C3: get_text_embedding returns a list aligned with its input: same length,
\* None exactly at the items of the batches whose call raised, the embedding
\* of input[i] elsewhere; every batch is sent once, in order, failed or not.
C3_EmbedAligned ==
    emb_res.done =>
        /\ Len(emb_res.out) = Len(emb_in)
        /\ \A i \in 0..(Len(emb_in) - 1) :
             /\ emb_res.out[i + 1].none <=> (emb_svc[(i \div emb_bs) + 1] = "raise")
             /\ ~emb_res.out[i + 1].none =>
                    emb_res.out[i + 1].embedding = <<"vec", emb_in[i + 1]>>
        /\ Len(emb_res.calls) = NumBatches(Len(emb_in), emb_bs)
        /\ \A b \in 1..Len(emb_res.calls) :
             emb_res.calls[b] =
                 [j \in 1..Min(emb_bs, Len(emb_in) - (b - 1) * emb_bs) |->
                     emb_in[(b - 1) * emb_bs + j]]

\* C3 witness: a list of several batches embedded with a failing batch that
\* is followed by a successful one.
C3_Witness ==
    /\ emb_res.done
    /\ Len(emb_in) >= 3
    /\ Len(emb_svc) >= 2
    /\ \E b \in 1..(Len(emb_svc) - 1) : emb_svc[b] = "raise" /\ emb_svc[b + 1] = "ok"

\* C4: rag_query on an unset index, or on a set index of zero vectors (chunks
\* empty or not), returns normally with empty context and empty sources.
C4_EmptyIndexEmptyResult ==
    (last.kind = "direct" /\ (index.none \/ index.ntotal = 0)) =>
        /\ ~last.res.raised
        /\ last.res.context = <<>>
        /\ last.res.sources = <<>>

\* C5 as stated: a question asked with no knowledge base loaded (index unset
\* or chunks empty), through main as through rag_query, gets the literal
\* not-loaded signal with empty context and sources and no network call.
C5_NotLoadedLiteral ==
    (last.kind = "main" /\ (index.none \/ chunks = <<>>)) =>
        last.res = Result(FALSE, NotLoadedMsg, <<>>, <<>>, <<>>, <<>>)

\* C5 amended: with no knowledge base loaded, every direct call of rag_query
\* returns the literal not-loaded signal with empty context and sources and
\* makes no call; a question submitted through main also gets empty context
\* and sources with no call, but its response is the missing-key message when
\* the key is empty, main's own add-sources message when the key is set and
\* the index is unset, and the literal signal only when the index is set and
\* chunks is empty.
C5_NotLoadedNoCalls ==
    (index.none \/ chunks = <<>>) =>
        /\ \A q \in Questions, k \in 1..MaxK, svc \in ServiceOutcomes :
             rag_query(Session, q, k, svc.eo, svc.co)
                 = Result(FALSE, NotLoadedMsg, <<>>, <<>>, <<>>, <<>>)
        /\ last.kind = "main" =>
             /\ last.res = Result(FALSE,
                                  IF api_key = "" THEN NoKeyMsg
                                  ELSE IF index.none THEN NoSourcesMsg
                                  ELSE NotLoadedMsg,
                                  <<>>, <<>>, <<>>, <<>>)
             /\ Len(chat_history) >= 2
             /\ LastTurns(chat_history, 2) =
                    <<UserTurn(last.question), AssistantTurn(last.res)>>

\* C5 witness: a question answered by rag_query's own not-loaded return: the
\* key is set, the index is set and there are no chunks.
C5_Witness ==
    /\ last.kind = "main"
    /\ api_key # ""
    /\ ~index.none
    /\ chunks = <<>>
    /\ last.res.response = NotLoadedMsg

\* C6: a question submitted while the session key is empty (after the sidebar
\* input and the load of that run) is answered with the missing-key message,
\* empty context and sources, and no embedding or chat call.
C6_MissingKeyShortCircuit ==
    (last.kind = "main" /\ api_key = "") =>
        /\ last.res = Result(FALSE, NoKeyMsg, <<>>, <<>>, <<>>, <<>>)
        /\ Len(chat_history) >= 2
        /\ LastTurns(chat_history, 2) =
               <<UserTurn(last.question), AssistantTurn(last.res)>>

\* C6 witness: the key is empty at a question although a knowledge base
\* is loaded, so that only the key check stops the query.
C6_Witness ==
    /\ last.kind = "main"
    /\ api_key = ""
    /\ last.load_ok
    /\ ~index.none
    /\ chunks # <<>>

\* C7: with a knowledge base loaded, when no embedding of the question came
\* back (the call raised or returned nothing), rag_query returns the
\* could-not-embed signal with empty context and sources after that one
\* embedding call, with no search and no chat call.
C7_EmbedFailureSignal ==
    (/\ last.kind = "direct"
     /\ ~index.none
     /\ chunks # <<>>
     /\ ~\E i \in 1..Len(last.res.events) :
            last.res.events[i] = Event("embed", "ok")) =>
        \E eo \in {"raise", "empty"} :
            last.res = Result(FALSE, EmbedErrorMsg, <<>>, <<>>, <<>>,
                              <<Event("embed", eo)>>)

\* C7 witness: the embedding call raised on a loaded, aligned knowledge base.
C7_Witness ==
    /\ last.kind = "direct"
    /\ ~index.none
    /\ index.ntotal = Len(chunks)
    /\ Len(chunks) = Len(sources)
    /\ Len(chunks) >= 2
    /\ last.res.events = <<Event("embed", "raise")>>

\* C8: every rag_query call that passes the knowledge-base check and gets a
\* question embedding sends exactly one chat request, after the embedding call
\* and the search; when that request raises, the call returns the error text
\* with the retrieved context and sources.
C8_ExactlyOneChat ==
    (/\ last.kind = "direct"
     /\ last.res.events # <<>>
     /\ last.res.events[1] = Event("embed", "ok")) =>
        /\ ~last.res.raised
        /\ Len(last.res.events) = 3
        /\ last.res.events[2] = Event("search", "ok")
        /\ last.res.events[3].call = "chat"
        /\ last.res.events[3].outcome = "raise" =>
             /\ \E e \in ChatErrors : last.res.response = ChatErrorPrefix \o e
             /\ Len(last.res.context) = last.k
             /\ Len(last.res.sources) = last.k

\* C9: a successful retrieval with parameter k builds k entries numbered 1..k
\* in search order, entry j being chunks[I[j]] and sources[I[j]] for the j-th
\* label I[j], a valid row of the index, and returns sources[I[1..k]].
C9_ContextFromNeighbours ==
    (/\ last.kind = "direct"
     /\ ~last.res.raised
     /\ \E i \in 1..Len(last.res.events) : last.res.events[i].call = "search") =>
        /\ Len(last.res.labels) = last.k
        /\ Len(last.res.context) = last.k
        /\ Len(last.res.sources) = last.k
        /\ \A j \in 1..last.k :
             LET row == last.res.labels[j] IN
             /\ 0 <= row
             /\ row < Len(chunks)
             /\ row < index.ntotal
             /\ last.res.context[j] =
                    [n |-> j, chunk |-> chunks[row + 1], source |-> sources[row + 1]]
             /\ last.res.sources[j] = sources[row + 1]

\* C10: the chat history always alternates user, assistant, user, assistant:
\* each submitted question has appended its user turn and then exactly one
\* assistant turn, in every branch, a failure inside the query included.
C10_HistoryAlternates ==
    /\ Len(chat_history) % 2 = 0
    /\ \A i \in 1..Len(chat_history) :
         chat_history[i].role = (IF i % 2 = 1 THEN "user" ELSE "assistant")
    /\ last.kind = "main" =>
         /\ Len(chat_history) >= 2
         /\ LastTurns(chat_history, 2) =
                <<UserTurn(last.question), AssistantTurn(last.res)>>
    /\ last.kind = "clear" => chat_history = <<>>

====
